---- MODULE Spec2Model ----
(***************************************************************************)
(* Model of libsql-studio-cli.                                             *)
(*                                                                         *)
(* Two programs live in the repository:                                    *)
(*   - the socket relay (src/src/connection.ts): a WebSocket server whose  *)
(*     MessageHandler relays hello / open_stream / close_stream / execute  *)
(*     messages to the database engine;                                    *)
(*   - the HTTP relay (src/src/studio.ts): POST /query runs execute or     *)
(*     batch and serializes the result with transformRawResult.            *)
(*                                                                         *)
(* Spec      is the socket relay, SpecHttp the HTTP relay.                 *)
(*                                                                         *)
(* The engine (db.execute / db.batch) is an opaque asynchronous service:   *)
(* a call stays pending for an arbitrary time and then fulfils or rejects. *)
(* The runtime is Node's single-threaded event loop: promise reactions     *)
(* (handlers pushed onto an already resolved promise) run as microtasks in *)
(* the order they were queued, before the next message or engine event;    *)
(* a promise that rejects with no reaction is reported at the end of the   *)
(* tick, and depending on the runtime's unhandled-rejections mode either   *)
(* terminates the process ("throw") or only prints a warning ("warn").     *)
(***************************************************************************)
EXTENDS Integers, Sequences, FiniteSets, TLC

(***************************************************************************)
(* Bounds of the model.                                                    *)
(***************************************************************************)
MaxConns == 2       \* socket connections accepted
MaxMsgs == 2        \* inbound socket messages, over all connections

Conns == 1..MaxConns

\* request_id and stream_id values a client uses
RequestIds == {1, 2}
StreamIds == {1}

\* value of crypto.randomBytes(12).toString("hex"), and the jwts a client may
\* present: the token and a string that differs from it
Tokens == {"a1b2c3"}
Jwts == Tokens \cup {""}

MaxCols == 2        \* columns of a result set serialized by prepareResult

\* message of an error the engine rejects with
ErrorMessages == {"SQLITE_ERROR: syntax error"}

VARIABLES
  token,                \* handleConnection: const token
  unhandledRejections,  \* runtime mode for promises rejected without a reaction
  alive,                \* the server process is running
  unhandled,            \* promises rejected in this tick with no reaction
  conns,                \* sockets for which a MessageHandler was constructed
  current,              \* MessageHandler.current, per connection
  inbox,                \* per connection: payloads received, in arrival order
  started,              \* per connection: number of pushed handlers that began
  calls,                \* per connection: handler index -> its db.execute promise
  sent,                 \* per connection: envelopes written with socket.send
  http,                 \* the POST /query request being handled
  response,             \* what was written on its res with res.json
  call,                 \* a call of one of the serializer's functions
  ret                   \* the value that call returned

vars == <<token, unhandledRejections, alive, unhandled, conns, current,
          inbox, started, calls, sent, http, response, call, ret>>

\* the state of the socket relay, of the HTTP relay and of a function call
sockVars == <<token, conns, current, inbox, started, calls, sent>>
httpVars == <<http, response>>
callVars == <<call, ret>>

(***************************************************************************)
(* Messages (type Message of connection.ts) and payloads.                  *)
(***************************************************************************)
Hello(jwt) == [type |-> "hello", jwt |-> jwt]

\* open_stream, close_stream, execute, and a type handleMessage does not know
RequestBodies ==
  [type : {"open_stream", "close_stream", "execute", "batch"}, stream_id : StreamIds]

\* the request types whose handler uses the request_id
AnsweredTypes == {"open_stream", "execute"}

Request(requestId, body) ==
  [type |-> "request", request_id |-> requestId, request |-> body]

Messages ==
  {Hello(j) : j \in Jwts}
    \cup {Request(r, b) : r \in RequestIds,
                           b \in {x \in RequestBodies : x.type \in AnsweredTypes}}
    \cup {Request(1, b) : b \in {x \in RequestBodies : x.type \notin AnsweredTypes}}
    \cup {[type |-> "ping"]}

\* what arrives on the socket: the text of a message, or text that is no JSON
Payloads ==
  {[parses |-> TRUE, value |-> m] : m \in Messages} \cup {[parses |-> FALSE]}

\* the initial promise of the constructor, Promise.resolve()
ResolvedPromise == [state |-> "fulfilled"]

(***************************************************************************)
(* Envelopes written to the socket.                                        *)
(***************************************************************************)
HelloOk == [type |-> "hello_ok"]

HelloError ==
  [type |-> "hello_error",
   error |-> [message |-> "Authentication failed: The JWT is invalid",
              code |-> "AUTH_JWT_INVALID"]]

OpenStreamOk(requestId) ==
  [type |-> "response_ok", request_id |-> requestId,
   response |-> [type |-> "open_stream"]]

(***************************************************************************)
(* Result sets of the engine, as prepareResult reads them.                 *)
(*                                                                         *)
(* A cell holds a JavaScript value.  A Row of the engine gives its cells   *)
(* by position and also as properties named after the columns; a property  *)
(* holds the cell of a column of that name (when two columns share a name, *)
(* the cell of one of them).                                               *)
(***************************************************************************)
Num(n) == [t |-> "number", v |-> n]
Str(x) == [t |-> "string", v |-> x]
Null == [t |-> "null"]
Blob == [t |-> "blob"]

CellValues == {Num(1), Str("x"), Null, Blob}

\* getValueType
getValueType(value) ==
  IF value.t = "string" THEN "text"
  ELSE IF value.t = "number" THEN "float"
  ELSE IF value.t = "null" THEN "null"
  ELSE "text"

\* JSON.stringify of a cell: strings, numbers and null are written as they
\* are, an ArrayBuffer has no enumerable property and is written as {}
JsonOf(value) ==
  IF value.t \in {"string", "number", "null"} THEN value ELSE [t |-> "object"]

ColumnNames == {"a", "b"}

SocketColumnLists == UNION {[1..n -> ColumnNames] : n \in 0..MaxCols}

SocketRows(columns) ==
  {[cells |-> cells, props |-> props] :
     cells \in [DOMAIN columns -> CellValues],
     props \in [{columns[i] : i \in DOMAIN columns} -> CellValues]}

\* the Rows the engine can build for the columns
EngineRows(columns) ==
  {row \in SocketRows(columns) :
     \A name \in DOMAIN row.props :
       \E i \in DOMAIN columns : columns[i] = name /\ row.props[name] = row.cells[i]}

\* lastInsertRowid: bigint | undefined
RowIds == {[t |-> "undefined"], [t |-> "bigint", v |-> 7]}

\* rows are serialized one by one, each by itself: result sets of at most
\* one row are drawn
SocketResultSets ==
  UNION {[columns : {columns},
          columnTypes : {[i \in DOMAIN columns |-> "INTEGER"]},
          rows : {<<>>} \cup {<<row>> : row \in EngineRows(columns)},
          rowsAffected : {0},
          lastInsertRowid : RowIds] : columns \in SocketColumnLists}

\* the result sets the engine answers the socket relay's calls with
ResultSets ==
  {[columns |-> <<"a">>, columnTypes |-> <<"INTEGER">>,
    rows |-> <<[cells |-> <<Num(1)>>, props |-> [name \in {"a"} |-> Num(1)]]>>,
    rowsAffected |-> 0, lastInsertRowid |-> [t |-> "undefined"]]}

\* prepareResult; the envelope is what JSON.stringify writes
prepareResult(requestId, r) ==
  [type |-> "response_ok", request_id |-> requestId,
   response |->
     [type |-> "execute",
      result |->
        [cols |-> [colIdx \in DOMAIN r.columns |->
                     [name |-> r.columns[colIdx],
                      decltype |-> r.columnTypes[colIdx]]],
         rows |-> [k \in DOMAIN r.rows |->
                     [i \in DOMAIN r.columns |->
                        LET col == r.columns[i]
                            row == r.rows[k]
                        IN [type |-> getValueType(row.props[col]),
                            value |-> JsonOf(row.props[col])]]],
         last_insert_rowid |->
           IF r.lastInsertRowid.t \in {"null", "undefined"} THEN Null
           ELSE Str(ToString(r.lastInsertRowid.v)),
         affected_row_count |-> r.rowsAffected]]]

ResponseError(requestId, message) ==
  [type |-> "response_error", request_id |-> requestId,
   error |-> [message |-> message]]

\* socket.send(env) by the handler of the by-th message of connection c
Send(c, by, env) ==
  sent' = [sent EXCEPT ![c] = Append(@, [env |-> env, by |-> by])]

\* nothing was written on res
NoResponse == [written |-> FALSE]

(***************************************************************************)
(* Initial state: handleConnection has created the engine client, drawn    *)
(* the token and started the server; no socket has connected yet.          *)
(***************************************************************************)
InitRelays ==
  /\ token \in Tokens
  /\ unhandledRejections \in {"throw", "warn"}
  /\ alive = TRUE
  /\ unhandled = 0
  /\ conns = {}
  /\ current = [c \in Conns |-> ResolvedPromise]
  /\ inbox = [c \in Conns |-> <<>>]
  /\ started = [c \in Conns |-> 0]
  /\ calls = [c \in Conns |-> <<>>]
  /\ sent = [c \in Conns |-> <<>>]
  /\ http = [state |-> "idle"]
  /\ response = NoResponse

\* no function call is followed
NoCall == [fn |-> "none"]
NoReturn == [returned |-> FALSE]

Init == InitRelays /\ call = NoCall /\ ret = NoReturn

RECURSIVE SumLen(_, _)
SumLen(f, S) ==
  IF S = {} THEN 0
  ELSE LET c == CHOOSE x \in S : TRUE IN Len(f[c]) + SumLen(f, S \ {c})

\* inbound messages so far, over all connections
Received == SumLen(inbox, Conns)

\* every pushed handler has begun: the microtask queue is drained
Drained == \A c \in Conns : started[c] = Len(inbox[c])

\* indices of the handlers of c whose engine call is outstanding
Pending(c) == {k \in DOMAIN calls[c] : calls[c][k].state = "pending"}

(***************************************************************************)
(* ws.on("connection"): new MessageHandler(socket, db, token).             *)
(* Sockets are numbered in the order they connect.                         *)
(***************************************************************************)
Connect(c) ==
  /\ alive /\ unhandled = 0 /\ Drained
  /\ c \notin conns
  /\ c = Cardinality(conns) + 1
  /\ conns' = conns \cup {c}
  /\ current' = [current EXCEPT ![c] = ResolvedPromise]
  /\ UNCHANGED <<token, unhandledRejections, alive, unhandled, inbox,
                 started, calls, sent>>
  /\ UNCHANGED httpVars
  /\ UNCHANGED callVars

(***************************************************************************)
(* push: this.current.then(handler).  The reaction is queued on the        *)
(* promise held in current; the promise then() returns is dropped and      *)
(* current keeps its value.                                                *)
(***************************************************************************)
\* push, had it kept the promise then() returns (this.current =
\* this.current.then(handler)): current becomes the promise of the handler
pushChained(c, payload) ==
  /\ inbox' = [inbox EXCEPT ![c] =
                 Append(@, [payload |-> payload, at |-> Len(sent[c])])]
  /\ current' = [current EXCEPT ![c] = [state |-> "pending"]]

push(c, payload) ==
  /\ inbox' = [inbox EXCEPT ![c] =
                 Append(@, [payload |-> payload, at |-> Len(sent[c])])]
  /\ current' = current

(***************************************************************************)
(* socket.on("message"): the payload is wrapped in a handler and pushed.   *)
(* "at" records how many envelopes had been written when it arrived.       *)
(* Several messages of one socket may be emitted in one tick (frames that  *)
(* arrived together), so handlers of c itself may still be queued; those   *)
(* of the other sockets were run at the end of their own tick.             *)
(***************************************************************************)
OnMessage(c, payload) ==
  /\ alive /\ unhandled = 0
  /\ \A d \in Conns \ {c} : started[d] = Len(inbox[d])
  /\ c \in conns
  /\ Received < MaxMsgs
  /\ push(c, payload)
  /\ UNCHANGED <<token, unhandledRejections, alive, unhandled, conns,
                 started, calls, sent>>
  /\ UNCHANGED httpVars
  /\ UNCHANGED callVars

(***************************************************************************)
(* The pushed handlers.  current is fulfilled from the start, so every     *)
(* reaction queued on it is run as a microtask, in the order queued; none  *)
(* waits for the one before it.  Begin(c) is the guard shared by the       *)
(* handlers: the next queued handler of c runs.                            *)
(***************************************************************************)
Next_k(c) == started[c] + 1

\* the handler of this payload throws: JSON.parse fails, or handleAuth
\* rejects the jwt
Throws(payload) ==
  \/ ~payload.parses
  \/ /\ payload.parses
     /\ payload.value.type = "hello"
     /\ payload.value.jwt # token

\* the guard, had push chained the handlers (current = current.then(handler)):
\* a handler queued behind one that threw is skipped with the rejection
BeginChained(c) ==
  /\ alive
  /\ c \in conns
  /\ current[c].state = "fulfilled"
  /\ started[c] < Len(inbox[c])
  /\ \A j \in 1..started[c] : ~Throws(inbox[c][j].payload)

Begin(c) ==
  /\ alive
  /\ c \in conns
  /\ current[c].state = "fulfilled"
  /\ started[c] < Len(inbox[c])

NextPayload(c) == inbox[c][Next_k(c)].payload

\* the handler's promise rejects and nothing reacts to it
Reject == unhandled' = unhandled + 1

\* JSON.parse(msg.toString()) throws
HandleUnparsable(c) ==
  /\ Begin(c)
  /\ ~NextPayload(c).parses
  /\ started' = [started EXCEPT ![c] = Next_k(c)]
  /\ Reject
  /\ UNCHANGED <<token, unhandledRejections, alive, conns, current, inbox,
                 calls, sent>>
  /\ UNCHANGED httpVars
  /\ UNCHANGED callVars

\* handleMessage: neither "hello" nor a request of a known type
HandleIgnored(c) ==
  /\ Begin(c)
  /\ NextPayload(c).parses
  /\ LET msg == NextPayload(c).value IN
       \/ msg.type \notin {"hello", "request"}
       \/ /\ msg.type = "request"
          /\ msg.request.type \notin {"open_stream", "close_stream", "execute"}
  /\ started' = [started EXCEPT ![c] = Next_k(c)]
  /\ UNCHANGED <<token, unhandledRejections, alive, unhandled, conns, current,
                 inbox, calls, sent>>
  /\ UNCHANGED httpVars
  /\ UNCHANGED callVars

\* handleAuth accepting a missing jwt as well
AuthReplyLoose(jwt, tok) == IF jwt = tok \/ jwt = "" THEN HelloOk ELSE HelloError

\* the reply of handleAuth
AuthReply(jwt, tok) == IF jwt = tok THEN HelloOk ELSE HelloError

\* handleAuth
handleAuth(c) ==
  /\ Begin(c)
  /\ NextPayload(c).parses
  /\ NextPayload(c).value.type = "hello"
  /\ LET msg == NextPayload(c).value IN
       /\ Send(c, Next_k(c), AuthReply(msg.jwt, token))
       /\ IF msg.jwt = token THEN unhandled' = unhandled ELSE Reject
  /\ started' = [started EXCEPT ![c] = Next_k(c)]
  /\ UNCHANGED <<token, unhandledRejections, alive, conns, current, inbox,
                 calls>>
  /\ UNCHANGED httpVars
  /\ UNCHANGED callVars

IsRequest(c, type) ==
  /\ NextPayload(c).parses
  /\ NextPayload(c).value.type = "request"
  /\ NextPayload(c).value.request.type = type

\* handleOpenStream refusing a stream_id the connection has opened before
handleOpenStreamOnce(c) ==
  /\ Begin(c)
  /\ IsRequest(c, "open_stream")
  /\ LET msg == NextPayload(c).value
         opened == \E j \in 1..started[c] :
                     /\ inbox[c][j].payload.parses
                     /\ inbox[c][j].payload.value.type = "request"
                     /\ inbox[c][j].payload.value.request.type = "open_stream"
                     /\ inbox[c][j].payload.value.request.stream_id
                          = msg.request.stream_id
     IN Send(c, Next_k(c),
             IF opened THEN ResponseError(msg.request_id, "stream already open")
             ELSE OpenStreamOk(msg.request_id))
  /\ started' = [started EXCEPT ![c] = Next_k(c)]
  /\ UNCHANGED <<token, unhandledRejections, alive, unhandled, conns, current,
                 inbox, calls>>
  /\ UNCHANGED httpVars
  /\ UNCHANGED callVars

\* handleOpenStream
handleOpenStream(c) ==
  /\ Begin(c)
  /\ IsRequest(c, "open_stream")
  /\ Send(c, Next_k(c), OpenStreamOk(NextPayload(c).value.request_id))
  /\ started' = [started EXCEPT ![c] = Next_k(c)]
  /\ UNCHANGED <<token, unhandledRejections, alive, unhandled, conns, current,
                 inbox, calls>>
  /\ UNCHANGED httpVars
  /\ UNCHANGED callVars

\* handleCloseStream
handleCloseStream(c) ==
  /\ Begin(c)
  /\ IsRequest(c, "close_stream")
  /\ started' = [started EXCEPT ![c] = Next_k(c)]
  /\ UNCHANGED <<token, unhandledRejections, alive, unhandled, conns, current,
                 inbox, calls, sent>>
  /\ UNCHANGED httpVars
  /\ UNCHANGED callVars

\* handleExecuteRequest, had the connections shared one queue: the call waits
\* for the outstanding calls of the other connections
handleExecuteRequestShared(c) ==
  /\ Begin(c)
  /\ IsRequest(c, "execute")
  /\ \A d \in Conns \ {c} : Pending(d) = {}
  /\ calls' = [calls EXCEPT ![c] = (Next_k(c) :> [state |-> "pending"]) @@ @]
  /\ started' = [started EXCEPT ![c] = Next_k(c)]
  /\ UNCHANGED <<token, unhandledRejections, alive, unhandled, conns, current,
                 inbox, sent>>
  /\ UNCHANGED httpVars
  /\ UNCHANGED callVars

\* handleExecuteRequest up to its await: db.execute is called
handleExecuteRequest(c) ==
  /\ Begin(c)
  /\ IsRequest(c, "execute")
  /\ calls' = [calls EXCEPT ![c] = (Next_k(c) :> [state |-> "pending"]) @@ @]
  /\ started' = [started EXCEPT ![c] = Next_k(c)]
  /\ UNCHANGED <<token, unhandledRejections, alive, unhandled, conns, current,
                 inbox, sent>>
  /\ UNCHANGED httpVars
  /\ UNCHANGED callVars

\* request_id of the k-th message of c (a request)
RequestIdOf(c, k) == inbox[c][k].payload.value.request_id

\* handleExecuteRequest after the await, the call having fulfilled with r.
\* The continuation is a microtask queued after the handlers already pushed.
ExecuteFulfilled(c, k, r) ==
  /\ alive /\ Drained
  /\ k \in Pending(c)
  /\ calls' = [calls EXCEPT ![c][k] = [state |-> "fulfilled", value |-> r]]
  /\ Send(c, k, prepareResult(RequestIdOf(c, k), r))
  /\ UNCHANGED <<token, unhandledRejections, alive, unhandled, conns, current,
                 inbox, started>>
  /\ UNCHANGED httpVars
  /\ UNCHANGED callVars

\* handleExecuteRequest without its try/catch: the rejection escapes
ExecuteRejectedUncaught(c, k, e) ==
  /\ alive /\ Drained
  /\ k \in Pending(c)
  /\ calls' = [calls EXCEPT ![c][k] = [state |-> "rejected", reason |-> e]]
  /\ unhandled' = unhandled + 1
  /\ UNCHANGED <<token, unhandledRejections, alive, conns, current, inbox,
                 started, sent>>
  /\ UNCHANGED httpVars
  /\ UNCHANGED callVars

\* the catch block of handleExecuteRequest, the call having rejected with e
ExecuteRejected(c, k, e) ==
  /\ alive /\ Drained
  /\ k \in Pending(c)
  /\ calls' = [calls EXCEPT ![c][k] = [state |-> "rejected", reason |-> e]]
  /\ Send(c, k, ResponseError(RequestIdOf(c, k), e.message))
  /\ UNCHANGED <<token, unhandledRejections, alive, unhandled, conns, current,
                 inbox, started>>
  /\ UNCHANGED httpVars
  /\ UNCHANGED callVars

(***************************************************************************)
(* End of the tick: the rejections nothing reacted to are reported.        *)
(***************************************************************************)
\* mode "throw": the process terminates with an uncaught exception
UnhandledRejectionThrow ==
  /\ alive /\ unhandled > 0 /\ Drained
  /\ unhandledRejections = "throw"
  /\ alive' = FALSE
  /\ unhandled' = 0
  /\ UNCHANGED <<token, unhandledRejections, conns, current, inbox, started,
                 calls, sent>>
  /\ UNCHANGED httpVars
  /\ UNCHANGED callVars

\* mode "warn": a warning is printed and the process goes on
UnhandledRejectionWarn ==
  /\ alive /\ unhandled > 0 /\ Drained
  /\ unhandledRejections = "warn"
  /\ unhandled' = 0
  /\ UNCHANGED <<token, unhandledRejections, alive, conns, current, inbox,
                 started, calls, sent>>
  /\ UNCHANGED httpVars
  /\ UNCHANGED callVars

Next ==
  \/ \E c \in Conns : Connect(c)
  \/ \E c \in Conns, p \in Payloads : OnMessage(c, p)
  \/ \E c \in Conns : HandleUnparsable(c)
  \/ \E c \in Conns : HandleIgnored(c)
  \/ \E c \in Conns : handleAuth(c)
  \/ \E c \in Conns : handleOpenStream(c)
  \/ \E c \in Conns : handleCloseStream(c)
  \/ \E c \in Conns : handleExecuteRequest(c)
  \/ \E c \in Conns, k \in 1..MaxMsgs, r \in ResultSets : ExecuteFulfilled(c, k, r)
  \/ \E c \in Conns, k \in 1..MaxMsgs, m \in ErrorMessages :
       ExecuteRejected(c, k, [message |-> m])
  \/ UnhandledRejectionThrow
  \/ UnhandledRejectionWarn

Spec == Init /\ [][Next]_vars

\* the handler next in the queue of c runs up to its first await
RunHandler(c) ==
  \/ HandleUnparsable(c)
  \/ HandleIgnored(c)
  \/ handleAuth(c)
  \/ handleOpenStream(c)
  \/ handleCloseStream(c)
  \/ handleExecuteRequest(c)

(***************************************************************************)
(* The HTTP relay (studio.ts).                                             *)
(***************************************************************************)
MaxBatch == 2   \* statements of a transaction
MaxRun == 22    \* length of a run of identical column names
MaxRows == 1    \* rows of a result set

\* enum ColumnType
TEXT == 1
INTEGER == 2
REAL == 3
BLOB == 4

\* the value undefined (no text is a sequence holding this element)
Undefined == <<"undefined">>

\* a declared type is a sequence of characters
\* String.prototype.toUpperCase, character by character
UpperChar(ch) ==
  CASE ch = "a" -> "A" [] ch = "b" -> "B" [] ch = "c" -> "C" [] ch = "d" -> "D"
    [] ch = "e" -> "E" [] ch = "f" -> "F" [] ch = "g" -> "G" [] ch = "h" -> "H"
    [] ch = "i" -> "I" [] ch = "j" -> "J" [] ch = "k" -> "K" [] ch = "l" -> "L"
    [] ch = "m" -> "M" [] ch = "n" -> "N" [] ch = "o" -> "O" [] ch = "p" -> "P"
    [] ch = "q" -> "Q" [] ch = "r" -> "R" [] ch = "s" -> "S" [] ch = "t" -> "T"
    [] ch = "u" -> "U" [] ch = "v" -> "V" [] ch = "w" -> "W" [] ch = "x" -> "X"
    [] ch = "y" -> "Y" [] ch = "z" -> "Z" [] OTHER -> ch

toUpperCase(str) == [i \in 1..Len(str) |-> UpperChar(str[i])]

\* String.prototype.includes
includes(str, sub) ==
  \E i \in 1..(Len(str) - Len(sub) + 1) : SubSeq(str, i, i + Len(sub) - 1) = sub

\* convertSqliteType with the INT test moved in front of the TEXT family
convertSqliteTypeIntFirst(type) ==
  IF type = Undefined THEN BLOB
  ELSE LET up == toUpperCase(type) IN
    IF includes(up, <<"I", "N", "T">>) THEN INTEGER
    ELSE IF includes(up, <<"C", "H", "A", "R">>) THEN TEXT
    ELSE IF includes(up, <<"T", "E", "X", "T">>) THEN TEXT
    ELSE IF includes(up, <<"C", "L", "O", "B">>) THEN TEXT
    ELSE IF includes(up, <<"S", "T", "R", "I", "N", "G">>) THEN TEXT
    ELSE IF includes(up, <<"B", "L", "O", "B">>) THEN BLOB
    ELSE IF \/ includes(up, <<"R", "E", "A", "L">>)
            \/ includes(up, <<"D", "O", "U", "B", "L", "E">>)
            \/ includes(up, <<"F", "L", "O", "A", "T">>) THEN REAL
    ELSE TEXT

\* convertSqliteType
convertSqliteType(type) ==
  IF type = Undefined THEN BLOB
  ELSE LET up == toUpperCase(type) IN
    IF includes(up, <<"C", "H", "A", "R">>) THEN TEXT
    ELSE IF includes(up, <<"T", "E", "X", "T">>) THEN TEXT
    ELSE IF includes(up, <<"C", "L", "O", "B">>) THEN TEXT
    ELSE IF includes(up, <<"S", "T", "R", "I", "N", "G">>) THEN TEXT
    ELSE IF includes(up, <<"I", "N", "T">>) THEN INTEGER
    ELSE IF includes(up, <<"B", "L", "O", "B">>) THEN BLOB
    ELSE IF \/ includes(up, <<"R", "E", "A", "L">>)
            \/ includes(up, <<"D", "O", "U", "B", "L", "E">>)
            \/ includes(up, <<"F", "L", "O", "A", "T">>) THEN REAL
    ELSE TEXT

\* the bound of the rename loop: for (let i = 0; i < 20; i++)
RenameAttempts == 20

\* the rename loop counting its suffixes from 1
RECURSIVE RenameFromOne(_, _, _, _)
RenameFromOne(colName, headerSet, i, renameColName) ==
  IF i >= RenameAttempts THEN renameColName
  ELSE IF renameColName \notin headerSet THEN renameColName
  ELSE RenameFromOne(colName, headerSet, i + 1,
                     "__" \o colName \o "_" \o ToString(i + 1))

\* the rename loop of transformRawResult, from iteration i on
RECURSIVE Rename(_, _, _, _)
Rename(colName, headerSet, i, renameColName) ==
  IF i >= RenameAttempts THEN renameColName
  ELSE IF renameColName \notin headerSet THEN renameColName
  ELSE Rename(colName, headerSet, i + 1,
              "__" \o colName \o "_" \o ToString(i))

\* raw.columns.map(...): the headers of the columns from colIdx on, headerSet
\* holding the names given so far
RECURSIVE Headers(_, _, _)
Headers(raw, colIdx, headerSet) ==
  IF colIdx > Len(raw.columns) THEN <<>>
  ELSE LET colName == raw.columns[colIdx]
           colType == raw.columnTypes[colIdx]
           renameColName == Rename(colName, headerSet, 0, colName)
       IN <<[name |-> renameColName,
             displayName |-> colName,
             originalType |-> colType,
             type |-> convertSqliteType(colType)]>>
            \o Headers(raw, colIdx + 1, headerSet \cup {renameColName})

\* a[b.name] = r[idx]
Assign(a, key, value) ==
  [x \in DOMAIN a \cup {key} |-> IF x = key THEN value ELSE a[x]]

\* headers.reduce((a, b, idx) => ..., {}): the object after the headers up
\* to idx
RECURSIVE RowObject(_, _, _)
RowObject(headers, r, idx) ==
  IF idx = 0 THEN <<>>
  ELSE Assign(RowObject(headers, r, idx - 1), headers[idx].name, r[idx])

\* transformRawResult (lastInsertRowid is left out)
transformRawResult(raw) ==
  LET headers == Headers(raw, 1, {}) IN
    [rows |-> [i \in 1..Len(raw.rows) |->
                 RowObject(headers, raw.rows[i], Len(headers))],
     stat |-> [rowsAffected |-> raw.rowsAffected,
               rowsRead |-> "null",
               rowsWritten |-> "null",
               queryDurationMs |-> 0],
     headers |-> headers]

(***************************************************************************)
(* Result sets the engine returns.                                         *)
(***************************************************************************)
Names == {"a", "__a_0"}
DeclTypes == {Undefined, <<"i", "n", "t">>, <<"V", "a", "r", "c", "h", "a", "r">>}
Values == {0}

Run(x, n) == [i \in 1..n |-> x]

\* column lists: at most one leading column, then a run of one name
ColumnLists ==
  {p \o Run(c, n) : p \in {<<>>} \cup {<<x>> : x \in Names},
                    c \in Names, n \in 0..MaxRun}

\* a row of n cells: every cell its own value, or all cells one value
RowsOf(n) == {[i \in 1..n |-> i]} \cup {Run(v, n) : v \in Values}

RowLists(n) == UNION {[1..m -> RowsOf(n)] : m \in 0..MaxRows}

RawResults ==
  UNION {[columns : {cols},
          columnTypes : {Run(t, Len(cols)) : t \in DeclTypes},
          rows : RowLists(Len(cols)),
          rowsAffected : {0}] : cols \in ColumnLists}

\* the result of a statement that returns no rows
NoRows == [columns |-> <<>>, columnTypes |-> <<>>, rows |-> <<>>, rowsAffected |-> 1]

\* results of a batch of k statements
BatchResults(k) == {<<raw>> \o Run(NoRows, k - 1) : raw \in RawResults}

\* errors the engine rejects with: an Error with a message and no data
EngineErrors == {[message |-> m] : m \in ErrorMessages}

(***************************************************************************)
(* POST /query                                                             *)
(***************************************************************************)
HttpIds == {1, 2}

HttpBodies ==
  {[id |-> i, type |-> "query", statement |-> "sql"] : i \in HttpIds}
    \cup {[id |-> i, type |-> "transaction", statements |-> Run("sql", k)] :
            i \in HttpIds, k \in 1..MaxBatch}

\* app.post("/query") up to its await: db.execute or db.batch is called.
\* Requests share no state of the relay, so one request is followed at a
\* time; res is the response object of that request.
PostQuery(body) ==
  /\ alive /\ unhandled = 0
  /\ http.state # "pending"
  /\ http' = [state |-> "pending", body |-> body]
  /\ response' = NoResponse
  /\ UNCHANGED <<unhandledRejections, alive, unhandled>>
  /\ UNCHANGED sockVars
  /\ UNCHANGED callVars

\* the query branch after its await: db.execute fulfilled with r
QueryFulfilled(r) ==
  /\ alive
  /\ http.state = "pending"
  /\ http.body.type = "query"
  /\ http' = [state |-> "fulfilled", body |-> http.body, value |-> <<r>>]
  /\ response' = [written |-> TRUE,
                  json |-> [type |-> http.body.type, id |-> http.body.id,
                            data |-> transformRawResult(r)]]
  /\ UNCHANGED <<unhandledRejections, alive, unhandled>>
  /\ UNCHANGED sockVars
  /\ UNCHANGED callVars

\* the else branch after its await: db.batch fulfilled with r, one result
\* for each statement
BatchFulfilled(r) ==
  /\ alive
  /\ http.state = "pending"
  /\ http.body.type # "query"
  /\ Len(r) = Len(http.body.statements)
  /\ http' = [state |-> "fulfilled", body |-> http.body, value |-> r]
  /\ response' = [written |-> TRUE,
                  json |-> [type |-> http.body.type, id |-> http.body.id,
                            data |-> [i \in 1..Len(r) |-> transformRawResult(r[i])]]]
  /\ UNCHANGED <<unhandledRejections, alive, unhandled>>
  /\ UNCHANGED sockVars
  /\ UNCHANGED callVars

\* the catch block, db.execute or db.batch having rejected with e: it reads
\* e.data.type and e.data.id; when e has no data the read throws a
\* TypeError inside the catch, the handler's promise rejects and nothing is
\* written
QueryRejected(e) ==
  /\ alive
  /\ http.state = "pending"
  /\ http' = [state |-> "rejected", body |-> http.body, reason |-> e]
  /\ IF "data" \in DOMAIN e
     THEN /\ response' = [written |-> TRUE,
                          json |-> [type |-> e.data.type, id |-> e.data.id,
                                    error |-> e.message]]
          /\ unhandled' = unhandled
     ELSE /\ response' = response
          /\ Reject
  /\ UNCHANGED <<unhandledRejections, alive>>
  /\ UNCHANGED sockVars
  /\ UNCHANGED callVars

NextHttp ==
  \/ \E body \in HttpBodies : PostQuery(body)
  \/ \E r \in RawResults : QueryFulfilled(r)
  \/ \E k \in 1..MaxBatch : \E r \in BatchResults(k) : BatchFulfilled(r)
  \/ \E e \in EngineErrors : QueryRejected(e)
  \/ UnhandledRejectionThrow
  \/ UnhandledRejectionWarn

SpecHttp == Init /\ [][NextHttp]_vars

(***************************************************************************)
(* The serializer's functions by themselves: a call is drawn, the function *)
(* is applied to it.                                                       *)
(***************************************************************************)
\* declared types convertSqliteType is called with
DeclTypeInputs ==
  {Undefined,
   <<"V", "A", "R", "C", "H", "A", "R", "(", "1", "0", ")">>,
   <<"I", "N", "T", "E", "G", "E", "R">>,
   <<"D", "O", "U", "B", "L", "E">>,
   <<"B", "L", "O", "B">>,
   <<"I", "N", "T", " ", "C", "H", "A", "R">>,
   <<"v", "a", "r", "c", "h", "a", "r", "(", "1", "0", ")">>,
   <<"i", "n", "t", "e", "g", "e", "r">>,
   <<"T", "e", "x", "t">>,
   <<"C", "L", "O", "B">>,
   <<"S", "T", "R", "I", "N", "G">>,
   <<"R", "E", "A", "L">>,
   <<"f", "l", "o", "a", "t">>,
   <<"d", "o", "u", "b", "l", "e", " ", "p", "r", "e", "c", "i", "s", "i", "o", "n">>,
   <<"N", "U", "M", "E", "R", "I", "C">>,
   <<"D", "A", "T", "E">>,
   <<>>,
   <<"P", "O", "I", "N", "T">>,
   <<"F", "L", "O", "A", "T", "I", "N", "G", " ", "P", "O", "I", "N", "T">>,
   <<"R", "E", "A", "L", " ", "B", "L", "O", "B">>,
   <<"B", "L", "O", "B", " ", "T", "E", "X", "T">>,
   <<"B", "O", "O", "L", "E", "A", "N">>,
   <<"B", "I", "G", "I", "N", "T">>,
   <<"n", "v", "a", "r", "c", "h", "a", "r">>,
   <<"t", "i", "n", "y", "i", "n", "t">>}

SerializerCalls ==
  {[fn |-> "convertSqliteType", arg |-> type] : type \in DeclTypeInputs}
    \cup {[fn |-> "prepareResult", requestId |-> requestId, arg |-> r] :
            requestId \in RequestIds, r \in SocketResultSets}

InitCall == InitRelays /\ call \in SerializerCalls /\ ret = NoReturn

CallConvertSqliteType ==
  /\ call.fn = "convertSqliteType"
  /\ ~ret.returned
  /\ ret' = [returned |-> TRUE, value |-> convertSqliteType(call.arg)]
  /\ UNCHANGED <<call, unhandledRejections, alive, unhandled>>
  /\ UNCHANGED sockVars
  /\ UNCHANGED httpVars

CallPrepareResult ==
  /\ call.fn = "prepareResult"
  /\ ~ret.returned
  /\ ret' = [returned |-> TRUE, value |-> prepareResult(call.requestId, call.arg)]
  /\ UNCHANGED <<call, unhandledRejections, alive, unhandled>>
  /\ UNCHANGED sockVars
  /\ UNCHANGED httpVars

NextCall == CallConvertSqliteType \/ CallPrepareResult

SpecCall == InitCall /\ [][NextCall]_vars

(***************************************************************************)
(* Properties of the socket relay.                                         *)
(***************************************************************************)
\* the envelopes the handler of the k-th message of c has written
SentBy(c, k) == SelectSeq(sent[c], LAMBDA e : e.by = k)

\* the k-th message of c parsed and is a request of one of the types
IsRequestOf(c, k, types) ==
  /\ inbox[c][k].payload.parses
  /\ inbox[c][k].payload.value.type = "request"
  /\ inbox[c][k].payload.value.request.type \in types

IsHello(c, k) ==
  /\ inbox[c][k].payload.parses
  /\ inbox[c][k].payload.value.type = "hello"

\* C1: the handler of message k+1 does not begin before the handler of
\* message k has settled, so a handler whose engine call is outstanding is
\* the last one that began and at most one engine call of a connection is
\* outstanding.
C1_OneHandlerAtATime ==
  \A c \in Conns :
    /\ \A k \in Pending(c) : k = started[c]
    /\ Cardinality(Pending(c)) <= 1

\* C2: the responses to execute requests are written in the order in which
\* the requests arrived.
C2_ResponsesInRequestOrder ==
  \A c \in Conns : \A p, q \in DOMAIN sent[c] :
    (/\ p < q
     /\ sent[c][p].by \in DOMAIN calls[c]
     /\ sent[c][q].by \in DOMAIN calls[c])
      => sent[c][p].by < sent[c][q].by

\* C3: a request that arrives after hello_error was written causes no engine
\* call and no response.
C3_UnusableAfterHelloError ==
  \A c \in Conns : \A p \in DOMAIN sent[c] :
    sent[c][p].env.type = "hello_error" =>
      \A k \in DOMAIN inbox[c] :
        (inbox[c][k].at >= p /\ IsRequestOf(c, k, {"open_stream", "execute"}))
          => (k \notin DOMAIN calls[c] /\ SentBy(c, k) = <<>>)

\* C4: an execute request reaches the engine only if a hello carrying the
\* process token was handled earlier on the same connection.
C4_ExecuteOnlyAfterHello ==
  \A c \in Conns : \A k \in DOMAIN calls[c] :
    \E j \in 1..(k - 1) :
      IsHello(c, j) /\ inbox[c][j].payload.value.jwt = token

\* C5: every handled hello is answered by exactly one envelope: hello_ok if
\* its jwt equals the token, else hello_error with code AUTH_JWT_INVALID; a
\* hello not yet handled has no reply; and no step changes the token.
C5_Replies ==
  \A c \in Conns : \A k \in DOMAIN inbox[c] :
    IsHello(c, k) =>
      IF k > started[c] THEN SentBy(c, k) = <<>>
      ELSE /\ Len(SentBy(c, k)) = 1
           /\ LET env == SentBy(c, k)[1].env IN
                IF inbox[c][k].payload.value.jwt = token
                THEN env.type = "hello_ok"
                ELSE env.type = "hello_error" /\ env.error.code = "AUTH_JWT_INVALID"

C5_HelloReply == []C5_Replies /\ [][token' = token]_vars

C5_Witness ==
  \E c \in Conns : \E j, k \in 1..started[c] :
    /\ IsHello(c, j) /\ inbox[c][j].payload.value.jwt = token
    /\ IsHello(c, k) /\ inbox[c][k].payload.value.jwt # token
    /\ Len(SentBy(c, j)) = 1 /\ Len(SentBy(c, k)) = 1

\* C6: an engine call that rejected is answered by exactly one
\* response_error carrying the request's request_id and the failure's
\* message; and the step that handles the failure leaves the process
\* running, raises no unhandled rejection and leaves the connection's queue
\* (messages received, handlers begun, the promise handlers chain onto) as
\* it was, so that later requests are handled as before.
C6_Reported ==
  \A c \in Conns : \A k \in DOMAIN calls[c] :
    calls[c][k].state = "rejected" =>
      /\ Len(SentBy(c, k)) = 1
      /\ LET env == SentBy(c, k)[1].env IN
           /\ env.type = "response_error"
           /\ env.request_id = RequestIdOf(c, k)
           /\ env.error.message = calls[c][k].reason.message

C6_FailureStep ==
  (\E c \in Conns : \E k \in Pending(c) : calls'[c][k].state = "rejected")
    => /\ alive' = alive
       /\ unhandled' = unhandled
       /\ inbox' = inbox /\ started' = started /\ current' = current

C6_EngineFailureRecovered == []C6_Reported /\ [][C6_FailureStep]_vars

\* a request that arrived after the error response was answered response_ok
C6_Witness ==
  \E c \in Conns : \E k \in DOMAIN calls[c] : \E j \in DOMAIN calls[c] :
    /\ calls[c][k].state = "rejected"
    /\ k < j
    /\ \E p \in DOMAIN sent[c] : sent[c][p].by = k /\ inbox[c][j].at >= p
    /\ calls[c][j].state = "fulfilled"
    /\ Len(SentBy(c, j)) = 1
    /\ SentBy(c, j)[1].env.type = "response_ok"

(***************************************************************************)
(* Properties of the HTTP relay.                                           *)
(***************************************************************************)
\* the Result objects of the response, in the order of the engine's results
Data == IF http.body.type = "query" THEN <<response.json.data>>
        ELSE response.json.data

\* C7: when the engine call of a request fails, the body written is the
\* envelope {type, id, error} with the request's type and id and the
\* failure's message.
C7_ErrorEnvelope ==
  http.state = "rejected" =>
    /\ response.written
    /\ response.json = [type |-> http.body.type, id |-> http.body.id,
                        error |-> http.reason.message]

\* C8: the header names of every Result are pairwise distinct.
C8_HeaderNamesDistinct ==
  http.state = "fulfilled" =>
    \A d \in DOMAIN Data : \A i, j \in DOMAIN Data[d].headers :
      i # j => Data[d].headers[i].name # Data[d].headers[j].name

\* C9: for n <= 21 columns all named c the first header is named c and the
\* j-th following one __c_<j-1> (so [a,a,a] gives [a,__a_0,__a_1] and the
\* 21st gets __c_19); and whatever the columns, a header is named after its
\* column or __<column>_<i> with i in 0..19, no other suffix being tried.
C9_DedupRule ==
  http.state = "fulfilled" =>
    \A d \in DOMAIN Data :
      LET columns == http.value[d].columns
          headers == Data[d].headers
          n == Len(columns)
      IN /\ Len(headers) = n
         /\ (n >= 1 /\ n <= 21 /\ \A i \in 1..n : columns[i] = columns[1]) =>
              /\ headers[1].name = columns[1]
              /\ \A j \in 1..(n - 1) :
                   headers[j + 1].name
                     = "__" \o columns[1] \o "_" \o ToString(j - 1)
         /\ columns = <<"a", "a", "a">> =>
              [i \in 1..3 |-> headers[i].name] = <<"a", "__a_0", "__a_1">>
         /\ \A i \in 1..n :
              headers[i].name \in
                {columns[i]} \cup
                  {"__" \o columns[i] \o "_" \o ToString(x) : x \in 0..19}

\* 21 columns of one name were serialized, the last one named __a_19
C9_Witness ==
  /\ http.state = "fulfilled"
  /\ http.body.type = "query"
  /\ http.value[1].columns = Run("a", 21)
  /\ Data[1].headers[21].name = "__a_19"
  /\ Data[1].headers[3].name = "__a_1"

\* C10: every row maps each deduplicated column name to the raw value of
\* that column and has as many keys as the result set has columns.
C10_RowsKeepEveryColumn ==
  http.state = "fulfilled" =>
    \A d \in DOMAIN Data :
      LET raw == http.value[d]
          result == Data[d]
      IN \A r \in DOMAIN result.rows :
           /\ Cardinality(DOMAIN result.rows[r]) = Len(raw.columns)
           /\ \A i \in DOMAIN raw.columns :
                result.rows[r][result.headers[i].name] = raw.rows[r][i]

(***************************************************************************)
(* Properties of the serializer's functions.                               *)
(***************************************************************************)
\* C11: in the envelope of prepareResult, the value of cell i of row k is
\* the engine's value at position i of row k (as JSON writes that value),
\* and column i carries the engine's i-th column name and declared type.
C11_RowsAlignedToColumns ==
  (call.fn = "prepareResult" /\ ret.returned) =>
    LET r == call.arg
        result == ret.value.response.result
    IN /\ \A i \in DOMAIN r.columns :
            /\ result.cols[i].name = r.columns[i]
            /\ result.cols[i].decltype = r.columnTypes[i]
       /\ \A k \in DOMAIN r.rows : \A i \in DOMAIN r.columns :
            result.rows[k][i].value = JsonOf(r.rows[k].cells[i])

\* the words of each family of declared types
TextWords == {<<"C", "H", "A", "R">>, <<"T", "E", "X", "T">>,
              <<"C", "L", "O", "B">>, <<"S", "T", "R", "I", "N", "G">>}
IntWords == {<<"I", "N", "T">>}
BlobWords == {<<"B", "L", "O", "B">>}
RealWords == {<<"R", "E", "A", "L">>, <<"D", "O", "U", "B", "L", "E">>,
              <<"F", "L", "O", "A", "T">>}

\* the declared type holds one of the words, whatever the case of its letters
Mentions(type, words) == \E word \in words : includes(toUpperCase(type), word)

\* the declared types whose class the specification states
C12_Stated ==
  {<<Undefined, BLOB>>,
   <<<<"V", "A", "R", "C", "H", "A", "R", "(", "1", "0", ")">>, TEXT>>,
   <<<<"I", "N", "T", "E", "G", "E", "R">>, INTEGER>>,
   <<<<"D", "O", "U", "B", "L", "E">>, REAL>>,
   <<<<"B", "L", "O", "B">>, BLOB>>,
   <<<<"I", "N", "T", " ", "C", "H", "A", "R">>, TEXT>>}

\* C12: convertSqliteType follows the stated precedence: undefined gives BLOB;
\* otherwise, whatever the case, a type holding CHAR, TEXT, CLOB or STRING
\* gives TEXT, else one holding INT gives INTEGER, else one holding BLOB gives
\* BLOB, else one holding REAL, DOUBLE or FLOAT gives REAL, else TEXT; the
\* stated examples have the stated classes.
C12_Precedence ==
  (call.fn = "convertSqliteType" /\ ret.returned) =>
    LET type == call.arg IN
      /\ type = Undefined => ret.value = BLOB
      /\ type # Undefined =>
           /\ Mentions(type, TextWords) => ret.value = TEXT
           /\ (~Mentions(type, TextWords) /\ Mentions(type, IntWords))
                => ret.value = INTEGER
           /\ (~Mentions(type, TextWords \cup IntWords)
                 /\ Mentions(type, BlobWords)) => ret.value = BLOB
           /\ (~Mentions(type, TextWords \cup IntWords \cup BlobWords)
                 /\ Mentions(type, RealWords)) => ret.value = REAL
           /\ ~Mentions(type, TextWords \cup IntWords \cup BlobWords
                                \cup RealWords) => ret.value = TEXT
      /\ \A stated \in C12_Stated : type = stated[1] => ret.value = stated[2]

\* a declared type holding both INT and CHAR has been classified as TEXT
C12_Witness ==
  /\ call.fn = "convertSqliteType"
  /\ ret.returned
  /\ call.arg # Undefined
  /\ Mentions(call.arg, IntWords)
  /\ Mentions(call.arg, {<<"C", "H", "A", "R">>})
  /\ ret.value = TEXT

(***************************************************************************)
(* Properties of the socket relay, continued.                              *)
(***************************************************************************)
\* the payload is not JSON, or its type is none the relay knows
Unclassified(payload) ==
  \/ ~payload.parses
  \/ /\ payload.parses
     /\ \/ payload.value.type \notin {"hello", "request"}
        \/ /\ payload.value.type = "request"
           /\ payload.value.request.type
                \notin {"open_stream", "close_stream", "execute"}

\* C13: the handler of a message that is unparseable or of an unknown type
\* writes nothing and completes without failing (no promise rejects, no
\* engine call is made).
C13_SilentlyDropped ==
  [][\A c \in Conns :
       (/\ Begin(c)
        /\ Unclassified(NextPayload(c))
        /\ started'[c] = Next_k(c))
         => /\ sent' = sent
            /\ calls' = calls
            /\ unhandled' = unhandled]_vars

\* handler j of c has run and thrown, and handler k was pushed behind it
QueuedBehindFailure(c, j, k) ==
  /\ j < k
  /\ k <= Len(inbox[c])
  /\ j <= started[c]
  /\ Throws(inbox[c][j].payload)

\* C14: when a handler has thrown, every handler pushed on the connection
\* behind it is still run: until it has run, it is never held back (the
\* process is up and the handler next in the queue of the connection can
\* begin), so the microtask queue runs it.
C14_QueueContinues ==
  \A c \in Conns : \A j, k \in 1..MaxMsgs :
    (QueuedBehindFailure(c, j, k) /\ started[c] < k)
      => alive /\ ENABLED RunHandler(c)

\* a handler pushed behind one that threw has run
C14_Witness ==
  \E c \in Conns : \E j, k \in 1..MaxMsgs :
    QueuedBehindFailure(c, j, k) /\ started[c] >= k

\* stream_id of the k-th message of c (a request)
StreamIdOf(c, k) == inbox[c][k].payload.value.request.stream_id

\* C15: an execute request reaches the engine only while its stream is open:
\* an open_stream of its stream_id was acknowledged earlier on the connection
\* and no close_stream of that stream_id was handled since.
C15_ExecuteOnlyOnOpenStream ==
  \A c \in Conns : \A k \in DOMAIN calls[c] :
    \E j \in 1..(k - 1) :
      /\ IsRequestOf(c, j, {"open_stream"})
      /\ StreamIdOf(c, j) = StreamIdOf(c, k)
      /\ SentBy(c, j) # <<>>
      /\ \A i \in (j + 1)..(k - 1) :
           ~(/\ IsRequestOf(c, i, {"close_stream"})
             /\ StreamIdOf(c, i) = StreamIdOf(c, k))

\* C16: every handled open_stream, a repeat of an opened stream_id included,
\* is answered by exactly one envelope, the response_ok of type open_stream
\* with the request's request_id; an open_stream not yet handled and every
\* close_stream have no response.
C16_OpenAlwaysAcknowledged ==
  \A c \in Conns : \A k \in DOMAIN inbox[c] :
    /\ IsRequestOf(c, k, {"open_stream"}) =>
         IF k > started[c] THEN SentBy(c, k) = <<>>
         ELSE /\ Len(SentBy(c, k)) = 1
              /\ SentBy(c, k)[1].env.type = "response_ok"
              /\ SentBy(c, k)[1].env.response.type = "open_stream"
              /\ SentBy(c, k)[1].env.request_id = RequestIdOf(c, k)
    /\ IsRequestOf(c, k, {"close_stream"}) => SentBy(c, k) = <<>>

\* a connection has opened one stream_id twice and both requests are answered
C16_Witness ==
  \E c \in Conns : \E i, j \in 1..started[c] :
    /\ i < j
    /\ IsRequestOf(c, i, {"open_stream"})
    /\ IsRequestOf(c, j, {"open_stream"})
    /\ StreamIdOf(c, i) = StreamIdOf(c, j)
    /\ SentBy(c, i) # <<>>
    /\ SentBy(c, j) # <<>>

\* C17: while an engine call of connection d is outstanding (it may never
\* settle), a queued handler of another connection c can begin, and an
\* outstanding call of c can be answered, whichever of the calls was issued
\* first.
C17_ConnectionsIndependent ==
  \A c, d \in Conns :
    (c # d /\ Pending(d) # {} /\ alive) =>
      /\ started[c] < Len(inbox[c]) => ENABLED RunHandler(c)
      /\ \A k \in Pending(c) :
           Drained =>
             /\ ENABLED (\E r \in ResultSets : ExecuteFulfilled(c, k, r))
             /\ ENABLED (\E m \in ErrorMessages :
                           ExecuteRejected(c, k, [message |-> m]))

\* the call of one connection is outstanding and an execute request of
\* another connection has been answered
C17_Witness ==
  \E c, d \in Conns :
    /\ c # d
    /\ Pending(d) # {}
    /\ \E k \in DOMAIN calls[c] :
         calls[c][k].state # "pending" /\ Len(SentBy(c, k)) = 1

\* the k-th message of c is an execute request that has its one answer
Answered(c, k) ==
  /\ Len(SentBy(c, k)) = 1
  /\ SentBy(c, k)[1].env.type \in {"response_ok", "response_error"}
  /\ SentBy(c, k)[1].env.request_id = RequestIdOf(c, k)

\* C18: every execute request received is answered by exactly one envelope
\* carrying its request_id once its engine call has settled, and until then
\* the answer can still come (the process is up, and the request is queued or
\* its call is outstanding); and every envelope with a request_id was written
\* for a received request with that request_id.
C18_ExecuteAnsweredOnce ==
  \A c \in Conns :
    /\ \A k \in DOMAIN inbox[c] :
         IsRequestOf(c, k, {"execute"}) =>
           \/ Answered(c, k)
           \/ /\ SentBy(c, k) = <<>>
              /\ alive
              /\ k > started[c] \/ k \in Pending(c)
    /\ \A p \in DOMAIN sent[c] :
         sent[c][p].env.type \in {"response_ok", "response_error"} =>
           /\ sent[c][p].by \in DOMAIN inbox[c]
           /\ IsRequestOf(c, sent[c][p].by, {"open_stream", "execute"})
           /\ sent[c][p].env.request_id = RequestIdOf(c, sent[c][p].by)

\* the handlers that answer before their first await
AnswersAtOnce(c, k) == IsHello(c, k) \/ IsRequestOf(c, k, {"open_stream"})

\* what can be seen of the order in which the handlers of a connection began
C19_BegunInOrder ==
  \A c \in Conns :
    /\ started[c] <= Len(inbox[c])
    /\ \A i, j \in DOMAIN inbox[c] :
         (/\ i < j
          /\ IsRequestOf(c, i, {"execute"})
          /\ j <= started[c]) => i \in DOMAIN calls[c]
    /\ \A k \in DOMAIN calls[c] : k <= started[c]
    /\ \A p, q \in DOMAIN sent[c] :
         (/\ p < q
          /\ AnswersAtOnce(c, sent[c][p].by)
          /\ AnswersAtOnce(c, sent[c][q].by)) => sent[c][p].by < sent[c][q].by

\* a step begins at most the handler next in the queue of a connection, an
\* engine call is issued by the handler that begins in that step, and current
\* is left as the constructor set it
C19_Step ==
  \A c \in Conns :
    /\ started'[c] \in {started[c], started[c] + 1}
    /\ \A k \in DOMAIN calls'[c] \ DOMAIN calls[c] :
         k = started[c] + 1 /\ k = started'[c]
    /\ c \in conns => current'[c] = current[c]

\* C19: the handlers of a connection begin in the order in which its
\* messages arrived, the handler of an execute request issuing its engine
\* call before the next handler begins; and current is never reassigned
\* after construction.
C19_ArrivalOrder == []C19_BegunInOrder /\ [][C19_Step]_vars

\* two execute requests of one connection have both begun, in order, on the
\* promise of the constructor
C19_Witness ==
  \E c \in conns :
    /\ started[c] >= 2
    /\ {1, 2} \subseteq DOMAIN calls[c]
    /\ current[c] = ResolvedPromise

====
